---------------------------- MODULE Spec2Model ----------------------------
(***************************************************************************)
(* State-machine model of src/imp/security_framework.rs: the Security      *)
(* Framework backend of native-tls.                                        *)
(*                                                                         *)
(*  - Handshake part: ClientBuilder::handshake, ServerBuilder::handshake   *)
(*    and MidHandshakeTlsStream::handshake, with the values they move      *)
(*    (raw transports, MidHandshakeTlsStream, TlsStream) held by a caller. *)
(*  - Stream part: read, write, flush and buffered_read_size of an        *)
(*    established TlsStream.                                               *)
(*  - Import part: Pkcs12::parse, with the temporary directory and         *)
(*    keychain it creates.                                                 *)
(*                                                                         *)
(* The platform engine (security_framework::secure_transport), the         *)
(* transport and the keychain are collaborators of the file: the model     *)
(* gives them the behaviour of the collaborator contracts, and every       *)
(* choice they make is a nondeterministic input.                           *)
(***************************************************************************)
EXTENDS Integers, Sequences, FiniteSets, TLC

VARIABLES
    raw,        \* transports the caller still holds as plain streams S
    mids,       \* the MidHandshakeTlsStream values the caller holds
    tls,        \* the TlsStream values the caller holds
    result,     \* per transport: variant of the last handshake return
    err,        \* per transport: the Error of the last Failure, or NoError
    call,       \* per transport: the builder call that started its handshake
    transport,  \* per transport: the byte stream itself (peer, buffers, wire
                \* log) and what the engine did on it during the last call
    srv,        \* the ServerBuilder { identity, chain }
    p12in,      \* Pkcs12::parse: the arguments and the collaborators' state
    p12out,     \* Pkcs12::parse: what the call returned
    io          \* per transport: the established stream's buffered plaintext
                \* and the last call made on its TlsStream

vars == <<raw, mids, tls, result, err, call, transport, srv, p12in, p12out, io>>
hsVars == <<raw, mids, tls, result, err, call, transport, srv>>
p12Vars == <<p12in, p12out>>

---------------------------------------------------------------------------
(* Bounds *)

NumTransports == 2
MaxCerts == 3
MaxRecords == 2
MaxBuffered == 2

Transports == 1..NumTransports

---------------------------------------------------------------------------
(* The transport and the peer behind it *)

Domains == {"example.test", "other.test"}

\* The name the compliant peer's certificate is issued for.
PeerCertName == "example.test"

\* One handshake, seen from each side, as the ordered records the engine
\* writes (w...) and reads (r...).
ClientScript == <<"wClientHello", "rServerCert", "wClientFinished">>

ServerScript == <<"rClientHello", "wServerCert", "rClientFinished">>

Script(side) == IF side = "Client" THEN ClientScript ELSE ServerScript

IsRead(step) == step \in {"rServerCert", "rClientHello", "rClientFinished"}

\* On a non-blocking transport, `ready` is the number of records the
\* transport can move right now (bytes to give, room to accept) before it
\* signals would-block. A blocking transport never signals it.
WouldBlock(tr) == ~tr.blocking /\ tr.ready = 0

\* The peer answers only what it has received: record p of the script can be
\* ready while `done` records are on the wire unless p is a read that follows
\* a write the engine has not made yet.
Causal(side, done, p) ==
    ~(/\ IsRead(Script(side)[p])
      /\ p > 1
      /\ ~IsRead(Script(side)[p - 1])
      /\ p - 1 > done)

\* The readiness a non-blocking transport can have when a builder is called.
InitialReady(side) ==
    {n \in 0..Len(Script(side)) : \A p \in 1..n : Causal(side, 0, p)}

Moved(tr, step) ==
    [tr EXCEPT !.log = Append(@, step),
               !.ready = IF tr.blocking THEN 0 ELSE @ - 1]

---------------------------------------------------------------------------
(* The engine: security_framework::secure_transport *)

NoCert == [identity |-> "none", chain |-> <<>>]

NoError == [base |-> "none"]

\* SslContext::new(side, ConnectionType::Stream)
SslContext_new(side, fault) ==
    IF fault = "new"
    THEN [ok |-> FALSE, error |-> "errSecAllocate"]
    ELSE [ok |-> TRUE,
          ctx |-> [side |-> side, peerName |-> "", cert |-> NoCert, pos |-> 0]]

\* ctx.set_peer_domain_name(domain)
set_peer_domain_name(ctx, domain, fault) ==
    IF fault = "set"
    THEN [ok |-> FALSE, error |-> "errSecParam"]
    ELSE [ok |-> TRUE, ctx |-> [ctx EXCEPT !.peerName = domain]]

\* ctx.set_certificate(&identity, &chain)
set_certificate(ctx, identity, chain, fault) ==
    IF fault = "set"
    THEN [ok |-> FALSE, error |-> "errSecParam"]
    ELSE [ok |-> TRUE,
          ctx |-> [ctx EXCEPT !.cert = [identity |-> identity, chain |-> chain]]]

\* One run of the engine's handshake step on stream t: it advances through
\* the script until it is done, the transport would block, or it fails.
RECURSIVE EngineRun(_, _, _)
EngineRun(ctx, t, tr) ==
    IF ctx.pos = Len(Script(ctx.side))
    THEN [tag |-> "Ok", stream |-> [stream |-> t, ctx |-> ctx], tr |-> tr]
    ELSE
      LET step == Script(ctx.side)[ctx.pos + 1] IN
      IF IsRead(step)
      THEN IF WouldBlock(tr)
           THEN [tag |-> "Interrupted", mid |-> [stream |-> t, ctx |-> ctx], tr |-> tr]
           ELSE IF tr.peer = "violates"
           THEN [tag |-> "Failure", error |-> "errSSLProtocol", tr |-> Moved(tr, step)]
           ELSE IF step = "rServerCert" /\ ctx.peerName # PeerCertName
           THEN [tag |-> "Failure", error |-> "errSSLHostNameMismatch",
                 tr |-> Moved(tr, step)]
           ELSE EngineRun([ctx EXCEPT !.pos = @ + 1], t, Moved(tr, step))
      ELSE IF step = "wServerCert" /\ ctx.cert = NoCert
           THEN [tag |-> "Failure", error |-> "errSSLBadCert", tr |-> tr]
           ELSE IF WouldBlock(tr)
           THEN [tag |-> "Interrupted", mid |-> [stream |-> t, ctx |-> ctx], tr |-> tr]
           ELSE EngineRun([ctx EXCEPT !.pos = @ + 1], t, Moved(tr, step))

\* No engine handshake step has run during the current call.
NoOutcome == [tag |-> "none", error |-> "none"]

\* The stream as a handshake call of the layer finds it on entry.
Entered(tr) == [tr EXCEPT !.driven = 0, !.last = NoOutcome]

\* One invocation of the engine's handshake step, as seen at the engine's
\* interface: the invocation is counted and its own outcome is kept.
Observed(r) ==
    [r EXCEPT !.tr = [@ EXCEPT !.driven = @ + 1,
                               !.last = [tag |-> r.tag,
                                         error |-> IF r.tag = "Failure"
                                                   THEN r.error ELSE "none"]]]

\* ctx.handshake(stream)
SslContext_handshake(ctx, t, tr) == Observed(EngineRun(ctx, t, tr))

\* MidHandshakeSslStream::handshake(self)
MidHandshakeSslStream_handshake(s, tr) == Observed(EngineRun(s.ctx, s.stream, tr))

---------------------------------------------------------------------------
(* The layer: src/imp/security_framework.rs *)

\* impl From<base::Error> for Error
Error_from(error) == [base |-> error]

\* struct MidHandshakeTlsStream<S>(secure_transport::MidHandshakeSslStream<S>)
MidHandshakeTlsStream(s) == [mid |-> s]

\* struct TlsStream<S>(secure_transport::SslStream<S>)
TlsStream(s) == [ssl |-> s]

\* Faulty variant of HandshakeError_from: the suspended value is rebuilt
\* around a context that forgot its progress.
HandshakeError_from_restart(e) ==
    IF e.tag = "Failure"
    THEN [tag |-> "Failure", error |-> Error_from(e.error), tr |-> e.tr]
    ELSE [tag |-> "Interrupted",
          mid |-> MidHandshakeTlsStream([e.mid EXCEPT !.ctx.pos = 0]),
          tr  |-> e.tr]

\* Faulty variant of HandshakeError_from: every engine failure is reported
\* as one generic error of the layer.
HandshakeError_from_generic(e) ==
    IF e.tag = "Failure"
    THEN [tag |-> "Failure", error |-> Error_from("errSSLInternal"), tr |-> e.tr]
    ELSE [tag |-> "Interrupted", mid |-> MidHandshakeTlsStream(e.mid), tr |-> e.tr]

\* impl From<secure_transport::HandshakeError<S>> for HandshakeError<S>
HandshakeError_from(e) ==
    IF e.tag = "Failure"
    THEN [tag |-> "Failure", error |-> Error_from(e.error), tr |-> e.tr]
    ELSE [tag |-> "Interrupted", mid |-> MidHandshakeTlsStream(e.mid), tr |-> e.tr]

\* impl From<base::Error> for HandshakeError<S>
HandshakeError_from_base(error, tr) ==
    [tag |-> "Failure", error |-> Error_from(error), tr |-> tr]

\* Faulty variant of MidHandshakeTlsStream_handshake: the resume hands the
\* suspended value back without driving the engine.
MidHandshakeTlsStream_handshake_stub(self, tr) ==
    [tag |-> "Interrupted", mid |-> self, tr |-> tr]

\* Faulty variant of MidHandshakeTlsStream_handshake: an interrupted step is
\* tried once more before the call returns.
MidHandshakeTlsStream_handshake_retry(self, tr) ==
    LET r1 == MidHandshakeSslStream_handshake(self.mid, tr)
        r  == IF r1.tag = "Interrupted"
              THEN MidHandshakeSslStream_handshake(r1.mid, r1.tr)
              ELSE r1 IN
    IF r.tag = "Ok"
    THEN [tag |-> "Ok", stream |-> TlsStream(r.stream), tr |-> r.tr]
    ELSE HandshakeError_from(r)

\* MidHandshakeTlsStream::handshake(self)
MidHandshakeTlsStream_handshake(self, tr) ==
    LET r == MidHandshakeSslStream_handshake(self.mid, tr) IN
    IF r.tag = "Ok"
    THEN [tag |-> "Ok", stream |-> TlsStream(r.stream), tr |-> r.tr]
    ELSE HandshakeError_from(r)

\* Faulty variant of ClientBuilder_handshake: the result of
\* set_peer_domain_name is not looked at.
ClientBuilder_handshake_unchecked(domain, t, tr, fault) ==
    LET c0 == SslContext_new("Client", fault) IN
    IF ~c0.ok THEN HandshakeError_from_base(c0.error, tr)
    ELSE
      LET c1  == set_peer_domain_name(c0.ctx, domain, fault)
          ctx == IF c1.ok THEN c1.ctx ELSE c0.ctx
          r   == SslContext_handshake(ctx, t, tr) IN
      IF r.tag = "Ok"
      THEN [tag |-> "Ok", stream |-> TlsStream(r.stream), tr |-> r.tr]
      ELSE HandshakeError_from(r)

\* ClientBuilder::handshake(&mut self, domain, stream)
ClientBuilder_handshake(domain, t, tr, fault) ==
    LET c0 == SslContext_new("Client", fault) IN
    IF ~c0.ok THEN HandshakeError_from_base(c0.error, tr)
    ELSE
      LET c1 == set_peer_domain_name(c0.ctx, domain, fault) IN
      IF ~c1.ok THEN HandshakeError_from_base(c1.error, tr)
      ELSE
        LET r == SslContext_handshake(c1.ctx, t, tr) IN
        IF r.tag = "Ok"
        THEN [tag |-> "Ok", stream |-> TlsStream(r.stream), tr |-> r.tr]
        ELSE HandshakeError_from(r)

\* Faulty variant of ServerBuilder_handshake: the identity and chain are
\* never installed in the session.
ServerBuilder_handshake_nocert(self, t, tr, fault) ==
    LET c0 == SslContext_new("Server", fault) IN
    IF ~c0.ok THEN HandshakeError_from_base(c0.error, tr)
    ELSE
      LET r == SslContext_handshake(c0.ctx, t, tr) IN
      IF r.tag = "Ok"
      THEN [tag |-> "Ok", stream |-> TlsStream(r.stream), tr |-> r.tr]
      ELSE HandshakeError_from(r)

\* Faulty variant of ServerBuilder_handshake: the identity is installed
\* without the builder's chain.
ServerBuilder_handshake_nochain(self, t, tr, fault) ==
    LET c0 == SslContext_new("Server", fault) IN
    IF ~c0.ok THEN HandshakeError_from_base(c0.error, tr)
    ELSE
      LET c1 == set_certificate(c0.ctx, self.identity, <<>>, fault) IN
      IF ~c1.ok THEN HandshakeError_from_base(c1.error, tr)
      ELSE
        LET r == SslContext_handshake(c1.ctx, t, tr) IN
        IF r.tag = "Ok"
        THEN [tag |-> "Ok", stream |-> TlsStream(r.stream), tr |-> r.tr]
        ELSE HandshakeError_from(r)

\* ServerBuilder::handshake(&mut self, stream)
ServerBuilder_handshake(self, t, tr, fault) ==
    LET c0 == SslContext_new("Server", fault) IN
    IF ~c0.ok THEN HandshakeError_from_base(c0.error, tr)
    ELSE
      LET c1 == set_certificate(c0.ctx, self.identity, self.chain, fault) IN
      IF ~c1.ok THEN HandshakeError_from_base(c1.error, tr)
      ELSE
        LET r == SslContext_handshake(c1.ctx, t, tr) IN
        IF r.tag = "Ok"
        THEN [tag |-> "Ok", stream |-> TlsStream(r.stream), tr |-> r.tr]
        ELSE HandshakeError_from(r)

\* Faulty variant of MoveStream: the caller keeps its stream after the call.
CopyStream(held, t) == held

\* `stream: S` is passed by value: the caller's binding is moved from.
MoveStream(held, t) == held \ {t}

\* Faulty variant of ConsumeSelf: the suspended value survives its resume.
BorrowSelf(held, m) == held

\* Faulty variant of ConsumeSelf: a resume invalidates every suspended
\* handshake, whatever its transport.
ConsumeAll(held, m) == {}

\* `handshake(self)` takes the MidHandshakeTlsStream by value.
ConsumeSelf(held, m) == held \ {m}

\* HandshakeError::Failure carries no S: the engine dropped the stream, and
\* its buffers are gone with it (the wire log is what the peer saw).
DropStream(tr) == [tr EXCEPT !.ready = 0]

\* The variant of a return value, as the status of section 4.5.
StatusOf(out) ==
    CASE out.tag = "Ok"          -> "Complete"
      [] out.tag = "Interrupted" -> "Interrupted"
      [] out.tag = "Failure"     -> "Failed"

\* The caller receives `out`, the value returned for transport t, having kept
\* the suspended values `kept`.
Return(t, out, kept) ==
    /\ tls' = IF out.tag = "Ok" THEN tls \cup {out.stream} ELSE tls
    /\ mids' = IF out.tag = "Interrupted" THEN kept \cup {out.mid} ELSE kept
    /\ result' = [result EXCEPT ![t] = StatusOf(out)]
    /\ err' = [err EXCEPT ![t] = IF out.tag = "Failure" THEN out.error ELSE NoError]
    /\ transport' = [transport EXCEPT ![t] =
                        IF out.tag = "Failure" THEN DropStream(out.tr) ELSE out.tr]

\* The transport as a builder finds it: a non-blocking one is ready for n
\* records.
Found(tr, n) == [Entered(tr) EXCEPT !.ready = IF tr.blocking THEN 0 ELSE n]

Faults == {"none", "new", "set"}

NoCall == [side |-> "none", domain |-> "", fault |-> "none"]

ClientHandshake(t) ==
    /\ t \in raw
    /\ \E domain \in Domains, fault \in Faults, n \in InitialReady("Client") :
         /\ raw' = MoveStream(raw, t)
         /\ call' = [call EXCEPT ![t] = [side |-> "Client", domain |-> domain, fault |-> fault]]
         /\ Return(t, ClientBuilder_handshake(domain, t, Found(transport[t], n), fault), mids)
    /\ UNCHANGED <<srv, p12in, p12out, io>>

ServerHandshake(t) ==
    /\ t \in raw
    /\ \E fault \in Faults, n \in InitialReady("Server") :
         /\ raw' = MoveStream(raw, t)
         /\ call' = [call EXCEPT ![t] = [side |-> "Server", domain |-> "", fault |-> fault]]
         /\ Return(t, ServerBuilder_handshake(srv, t, Found(transport[t], n), fault), mids)
    /\ UNCHANGED <<srv, p12in, p12out, io>>

Resume(t) ==
    /\ \E m \in mids :
         /\ m.mid.stream = t
         /\ Return(t, MidHandshakeTlsStream_handshake(m, Entered(transport[t])),
                   ConsumeSelf(mids, m))
    /\ UNCHANGED <<raw, call, srv, p12in, p12out, io>>

\* A non-blocking transport with a suspended handshake becomes ready for one
\* more record: the peer's next record arrives, or room to send one frees up.
Ready(t) ==
    /\ ~transport[t].blocking
    /\ result[t] = "Interrupted"
    /\ Len(transport[t].log) + transport[t].ready < Len(Script(call[t].side))
    /\ Causal(call[t].side, Len(transport[t].log),
              Len(transport[t].log) + transport[t].ready + 1)
    /\ transport' = [transport EXCEPT ![t].ready = @ + 1]
    /\ UNCHANGED <<raw, mids, tls, result, err, call, srv, p12in, p12out, io>>

---------------------------------------------------------------------------
(* The established stream: secure_transport::SslStream and TlsStream *)

\* What the transport does when the engine touches it during a call.
IoEvents == {"data", "eof", "would_block", "reset"}

IoOk(n) == [ok |-> TRUE, n |-> n, error |-> [kind |-> "none"]]

IoErr(e) == [ok |-> FALSE, n |-> 0, error |-> e]

\* The io::Error the engine stream returns for a transport event.
IoErrorOf(ev) ==
    IF ev = "would_block" THEN [kind |-> "WouldBlock"] ELSE [kind |-> "ConnectionReset"]

Min(a, b) == IF a <= b THEN a ELSE b

\* What the engine stream returned (`seen`) next to what the caller of the
\* engine stream gets and the plaintext the stream then has buffered.
Engine(res, buffered) == [res |-> res, seen |-> res, buffered |-> buffered]

\* SslStream::read(buf), buf.len() = len: buffered plaintext is served
\* first; otherwise one record of MaxBuffered bytes is read and decrypted.
SslStream_read(buffered, len, ev) ==
    IF buffered > 0
    THEN Engine(IoOk(Min(len, buffered)), buffered - Min(len, buffered))
    ELSE IF ev = "data"
    THEN Engine(IoOk(Min(len, MaxBuffered)), MaxBuffered - Min(len, MaxBuffered))
    ELSE IF ev = "eof"
    THEN Engine(IoOk(0), 0)
    ELSE Engine(IoErr(IoErrorOf(ev)), 0)

\* SslStream::write(buf), buf.len() = len
SslStream_write(buffered, len, ev) ==
    IF ev = "data" THEN Engine(IoOk(len), buffered)
    ELSE IF ev = "eof" THEN Engine(IoOk(0), buffered)
    ELSE Engine(IoErr(IoErrorOf(ev)), buffered)

\* SslStream::flush()
SslStream_flush(buffered, ev) ==
    IF ev \in {"data", "eof"} THEN Engine(IoOk(0), buffered)
    ELSE Engine(IoErr(IoErrorOf(ev)), buffered)

\* SslContext::buffered_read_size()
SslContext_buffered_read_size(buffered, fault) ==
    IF fault THEN Engine(IoErr([code |-> "errSecParam"]), buffered)
    ELSE Engine(IoOk(buffered), buffered)

\* Faulty variant of TlsStream_read: would-block is reported as a read of
\* zero bytes.
TlsStream_read_swallow(buffered, len, ev) ==
    LET r == SslStream_read(buffered, len, ev) IN
    IF ~r.res.ok /\ r.res.error = [kind |-> "WouldBlock"]
    THEN [r EXCEPT !.res = IoOk(0)]
    ELSE r

\* impl io::Read for TlsStream: self.0.read(buf)
TlsStream_read(buffered, len, ev) == SslStream_read(buffered, len, ev)

\* impl io::Write for TlsStream: self.0.write(buf)
TlsStream_write(buffered, len, ev) == SslStream_write(buffered, len, ev)

\* impl io::Write for TlsStream: self.0.flush()
TlsStream_flush(buffered, ev) == SslStream_flush(buffered, ev)

\* TlsStream::buffered_read_size: Ok(try!(self.0.context().buffered_read_size()))
TlsStream_buffered_read_size(buffered, fault) ==
    LET r == SslContext_buffered_read_size(buffered, fault) IN
    IF r.res.ok THEN r ELSE [r EXCEPT !.res.error = Error_from(@)]

NoIo == [buffered |-> 0, op |-> "none", engine |-> IoOk(0), returned |-> IoOk(0)]

\* The caller gets r from the call `op` on the TlsStream of transport t.
IoReturn(t, op, r) ==
    io' = [io EXCEPT ![t] = [buffered |-> r.buffered, op |-> op,
                             engine |-> r.seen, returned |-> r.res]]

Read(t) ==
    /\ \E s \in tls : s.ssl.stream = t
    /\ \E len \in 1..MaxBuffered, ev \in IoEvents :
         IoReturn(t, "read", TlsStream_read(io[t].buffered, len, ev))
    /\ UNCHANGED <<raw, mids, tls, result, err, call, transport, srv, p12in, p12out>>

Write(t) ==
    /\ \E s \in tls : s.ssl.stream = t
    /\ \E len \in 1..MaxBuffered, ev \in IoEvents :
         IoReturn(t, "write", TlsStream_write(io[t].buffered, len, ev))
    /\ UNCHANGED <<raw, mids, tls, result, err, call, transport, srv, p12in, p12out>>

Flush(t) ==
    /\ \E s \in tls : s.ssl.stream = t
    /\ \E ev \in IoEvents :
         IoReturn(t, "flush", TlsStream_flush(io[t].buffered, ev))
    /\ UNCHANGED <<raw, mids, tls, result, err, call, transport, srv, p12in, p12out>>

BufferedReadSize(t) ==
    /\ \E s \in tls : s.ssl.stream = t
    /\ \E fault \in BOOLEAN :
         IoReturn(t, "buffered_read_size",
                  TlsStream_buffered_read_size(io[t].buffered, fault))
    /\ UNCHANGED <<raw, mids, tls, result, err, call, transport, srv, p12in, p12out>>

\* The identity and chain given to ServerBuilder::new.
ServerBuilder_new(identity, chain) == [identity |-> identity, chain |-> chain]

NoP12In == [kind |-> "none"]

NoP12Out == [tag |-> "none"]

InitHs ==
    /\ raw = Transports
    /\ mids = {}
    /\ tls = {}
    /\ result = [t \in Transports |-> "NotStarted"]
    /\ err = [t \in Transports |-> NoError]
    /\ call = [t \in Transports |-> NoCall]
    /\ transport \in [Transports ->
          [blocking : BOOLEAN, peer : {"compliant", "violates"},
           ready : {0}, log : {<<>>}, driven : {0}, last : {NoOutcome}]]
    /\ srv = ServerBuilder_new("serverKey", <<"ca">>)

Init ==
    /\ InitHs
    /\ p12in = NoP12In
    /\ p12out = NoP12Out
    /\ io = [t \in Transports |-> NoIo]

Next ==
    \E t \in Transports :
        \/ ClientHandshake(t)
        \/ ServerHandshake(t)
        \/ Resume(t)
        \/ Ready(t)

Spec == Init /\ [][Next]_vars

\* A client handshake on transport t that a compliant peer completes.
Established(t) ==
    ClientBuilder_handshake(PeerCertName, t,
        [blocking |-> TRUE, peer |-> "compliant", ready |-> 0, log |-> <<>>,
         driven |-> 0, last |-> NoOutcome],
        "none")

\* The state after the handshake of every transport has completed.
InitIo ==
    /\ raw = {}
    /\ mids = {}
    /\ tls = {Established(t).stream : t \in Transports}
    /\ result = [t \in Transports |-> StatusOf(Established(t))]
    /\ err = [t \in Transports |-> NoError]
    /\ call = [t \in Transports |->
                 [side |-> "Client", domain |-> PeerCertName, fault |-> "none"]]
    /\ transport = [t \in Transports |-> Established(t).tr]
    /\ srv = ServerBuilder_new("serverKey", <<"ca">>)
    /\ p12in = NoP12In
    /\ p12out = NoP12Out
    /\ io = [t \in Transports |-> NoIo]

NextIo ==
    \E t \in Transports :
        \/ Read(t)
        \/ Write(t)
        \/ Flush(t)
        \/ BufferedReadSize(t)

SpecIo == InitIo /\ [][NextIo]_vars

\* The caller keeps resuming and the transport keeps supplying and accepting
\* the records of the handshake.
FairSpec ==
    /\ Spec
    /\ \A t \in Transports :
         WF_vars(Resume(t)) /\ WF_vars(Ready(t))

---------------------------------------------------------------------------
(* Pkcs12::parse and its collaborators *)

\* The DER encodings certificates can have.
Ders == {"d1", "d2", "d3"}

\* The passphrase the bundles are encrypted under, and another one.
BundlePass == "secret"

Passphrases == {BundlePass, "guess"}

\* What can go wrong around an import: creating the temporary directory,
\* creating the keychain in it, reading the identity's certificate.
P12Faults == {"none", "tempdir", "keychain", "certificate"}

\* SecCertificate::to_der(): a certificate object is a handle; two objects
\* can carry the same encoding.
to_der(c) == c.der

\* TempDir::new("native_tls")
TempDir_new(fault) ==
    IF fault = "tempdir"
    THEN [ok |-> FALSE, error |-> "io::Error"]
    ELSE [ok |-> TRUE, path |-> "native_tls"]

\* keychain::CreateOptions::new().password(pass).create(dir.path().join("keychain"))
CreateOptions_create(password, dir, fault) ==
    IF fault = "keychain"
    THEN [ok |-> FALSE, error |-> "errSecNoAccess"]
    ELSE [ok |-> TRUE, keychain |-> [path |-> <<dir.path, "keychain">>, password |-> password]]

\* Pkcs12ImportOptions::new().passphrase(pass).keychain(keychain).import(buf)
Pkcs12ImportOptions_import(passphrase, keychain, buf) ==
    IF ~buf.valid THEN [ok |-> FALSE, error |-> "errSecDecode"]
    ELSE IF passphrase # buf.pass THEN [ok |-> FALSE, error |-> "errSecAuthFailed"]
    ELSE [ok |-> TRUE, items |-> buf.records]

\* SecIdentity::certificate()
SecIdentity_certificate(identity, fault) ==
    IF fault = "certificate"
    THEN [ok |-> FALSE, error |-> "errSecItemNotFound"]
    ELSE [ok |-> TRUE, cert |-> identity.cert]

\* Faulty variant of Vec_pop: the first element is taken.
Vec_first(v) ==
    IF Len(v) = 0 THEN [some |-> FALSE] ELSE [some |-> TRUE, value |-> v[1]]

\* Vec::pop(): the last element, or None.
Vec_pop(v) ==
    IF Len(v) = 0 THEN [some |-> FALSE] ELSE [some |-> TRUE, value |-> v[Len(v)]]

\* struct Identity(SecIdentity)
Identity(i) == [identity |-> i]

\* struct Certificate(SecCertificate)
Certificate(c) == [cert |-> c]

\* Faulty variant of KeepCert: the comparison is inverted.
KeepCert_inverted(c, identity_cert) == to_der(c) = identity_cert

\* The filter's closure: |c| c.to_der() != identity_cert
KeepCert(c, identity_cert) == to_der(c) # identity_cert

\* Faulty variant of FilterChain: the iteration ends at the first rejected
\* certificate (take_while for filter).
RECURSIVE FilterChain_takeWhile(_, _)
FilterChain_takeWhile(chain, identity_cert) ==
    IF chain = <<>> THEN <<>>
    ELSE IF KeepCert(Head(chain), identity_cert)
         THEN <<Certificate(Head(chain))>> \o FilterChain_takeWhile(Tail(chain), identity_cert)
         ELSE <<>>

\* import.cert_chain.into_iter().filter(..).map(Certificate).collect()
RECURSIVE FilterChain(_, _)
FilterChain(chain, identity_cert) ==
    IF chain = <<>> THEN <<>>
    ELSE IF KeepCert(Head(chain), identity_cert)
         THEN <<Certificate(Head(chain))>> \o FilterChain(Tail(chain), identity_cert)
         ELSE FilterChain(Tail(chain), identity_cert)

\* What a panic does to the frames it leaves, by the build's panic strategy.
PanicStrategies == {"unwind", "abort"}

\* The artifact at the directory's path and everything created under it.
Under(dir) == {<<dir.path>>, <<dir.path, "keychain">>}

\* impl Drop for TempDir: the directory is removed with all it contains.
TempDir_drop(dir, fs) == fs \ Under(dir)

\* Faulty variant of Leave: the directory outlives the call
\* (TempDir::into_path).
Leave_persist(ret, dir, made, secret) ==
    ret @@ [made |-> made, secret |-> secret, fs |-> made]

\* A return out of the body of parse, by try! or at its end: `dir`, bound at
\* the top of the body, goes out of scope and is dropped. `made` are the
\* storage artifacts the call created, `secret` the password its keychain
\* was created with, `fs` the artifacts that exist after the call.
Leave(ret, dir, made, secret) ==
    ret @@ [made |-> made, secret |-> secret, fs |-> TempDir_drop(dir, made)]

\* A panic out of the body of parse: unwinding drops `dir`, aborting does not.
Unwind(ret, dir, made, secret, strategy) ==
    ret @@ [made |-> made, secret |-> secret,
            fs |-> IF strategy = "unwind" THEN TempDir_drop(dir, made) ELSE made]

\* Faulty variant of Pkcs12_parse: the chain is taken from the first import
\* record, the identity from the last.
Pkcs12_parse_mixed(buf, pass, fault, strategy) ==
    LET dir == TempDir_new(fault) IN
    IF ~dir.ok
    THEN [tag |-> "Panic", at |-> "TempDir::new.unwrap",
          made |-> {}, secret |-> "none", fs |-> {}]
    ELSE
      LET keychain == CreateOptions_create(pass, dir, fault) IN
      IF ~keychain.ok
      THEN Leave([tag |-> "Err", error |-> Error_from(keychain.error)],
                 dir, {<<dir.path>>}, "none")
      ELSE
        LET made     == {<<dir.path>>, keychain.keychain.path}
            secret   == keychain.keychain.password
            imported == Pkcs12ImportOptions_import(pass, keychain.keychain, buf)
        IN
        IF ~imported.ok
        THEN Leave([tag |-> "Err", error |-> Error_from(imported.error)],
                   dir, made, secret)
        ELSE
          LET popped == Vec_pop(imported.items) IN
          IF ~popped.some
          THEN Unwind([tag |-> "Panic", at |-> "import.pop.unwrap"],
                      dir, made, secret, strategy)
          ELSE
            LET import == popped.value
                cert   == SecIdentity_certificate(import.identity, fault)
            IN
            IF ~cert.ok
            THEN Leave([tag |-> "Err", error |-> Error_from(cert.error)],
                       dir, made, secret)
            ELSE
              LET identity_cert == to_der(cert.cert) IN
              Leave([tag |-> "Ok",
                     bundle |-> [identity |-> Identity(import.identity),
                                 chain |-> FilterChain(imported.items[1].cert_chain,
                                                       identity_cert)]],
                    dir, made, secret)

\* Pkcs12::parse(buf, pass). A panic leaves the call without a value.
Pkcs12_parse(buf, pass, fault, strategy) ==
    LET dir == TempDir_new(fault) IN
    IF ~dir.ok
    THEN [tag |-> "Panic", at |-> "TempDir::new.unwrap",
          made |-> {}, secret |-> "none", fs |-> {}]
    ELSE
      LET keychain == CreateOptions_create(pass, dir, fault) IN
      IF ~keychain.ok
      THEN Leave([tag |-> "Err", error |-> Error_from(keychain.error)],
                 dir, {<<dir.path>>}, "none")
      ELSE
        LET made     == {<<dir.path>>, keychain.keychain.path}
            secret   == keychain.keychain.password
            imported == Pkcs12ImportOptions_import(pass, keychain.keychain, buf)
        IN
        IF ~imported.ok
        THEN Leave([tag |-> "Err", error |-> Error_from(imported.error)],
                   dir, made, secret)
        ELSE
          LET popped == Vec_pop(imported.items) IN
          IF ~popped.some
          THEN Unwind([tag |-> "Panic", at |-> "import.pop.unwrap"],
                      dir, made, secret, strategy)
          ELSE
            LET import == popped.value
                cert   == SecIdentity_certificate(import.identity, fault)
            IN
            IF ~cert.ok
            THEN Leave([tag |-> "Err", error |-> Error_from(cert.error)],
                       dir, made, secret)
            ELSE
              LET identity_cert == to_der(cert.cert) IN
              Leave([tag |-> "Ok",
                     bundle |-> [identity |-> Identity(import.identity),
                                 chain |-> FilterChain(import.cert_chain,
                                                       identity_cert)]],
                    dir, made, secret)

Parse ==
    /\ p12in # NoP12In
    /\ p12out = NoP12Out
    /\ \E strategy \in PanicStrategies :
         p12out' = Pkcs12_parse(p12in.buf, p12in.pass, p12in.fault, strategy)
    /\ UNCHANGED <<raw, mids, tls, result, err, call, transport, srv, p12in, io>>

\* The ways to cut s certificates into r chains, as the end of each chain.
CutsOf(r, s) ==
    {c \in [1..r -> 0..s] :
        /\ \A k \in 1..(r - 1) : c[k] <= c[k + 1]
        /\ r > 0 => c[r] = s}

\* The import records of a bundle: record k has an identity with its own
\* leaf certificate object and the chain flat[cuts[k-1]+1 .. cuts[k]]; every
\* certificate object has its own handle h.
RecordsOf(leafs, flat, cuts) ==
    [k \in 1..Len(leafs) |->
        [identity   |-> [key |-> k, cert |-> [h |-> 0 - k, der |-> leafs[k]]],
         cert_chain |-> [i \in 1..(cuts[k] - (IF k = 1 THEN 0 ELSE cuts[k - 1])) |->
                           LET j == i + (IF k = 1 THEN 0 ELSE cuts[k - 1]) IN
                           [h |-> j, der |-> flat[j]]]]]

\* Well-formed bundles of at most MaxRecords records and MaxCerts chain
\* certificates, and one byte string that is no PKCS#12 encoding.
Bundles ==
    {[valid |-> FALSE, pass |-> BundlePass, records |-> <<>>]}
    \cup
    {[valid |-> TRUE, pass |-> BundlePass, records |-> RecordsOf(leafs, flat, cuts)] :
        <<leafs, flat, cuts>> \in
            UNION {UNION {[1..r -> Ders] \X [1..s -> Ders] \X CutsOf(r, s) :
                            s \in (IF r = 0 THEN {0} ELSE 0..MaxCerts)} :
                     r \in 0..MaxRecords}}

InitParse ==
    /\ raw = Transports
    /\ mids = {}
    /\ tls = {}
    /\ result = [t \in Transports |-> "NotStarted"]
    /\ err = [t \in Transports |-> NoError]
    /\ call = [t \in Transports |-> NoCall]
    /\ transport = [t \in Transports |->
          [blocking |-> TRUE, peer |-> "compliant", ready |-> 0, log |-> <<>>,
           driven |-> 0, last |-> NoOutcome]]
    /\ srv = ServerBuilder_new("serverKey", <<"ca">>)
    /\ p12in \in [buf : Bundles, pass : Passphrases, fault : P12Faults]
    /\ p12out = NoP12Out
    /\ io = [t \in Transports |-> NoIo]

NextParse == Parse

SpecParse == InitParse /\ [][NextParse]_vars

---------------------------------------------------------------------------
(* Properties of the handshake *)

MidsIn(held, t) == {m \in held : m.mid.stream = t}

TlsIn(held, t) == {s \in held : s.ssl.stream = t}

MidsOf(t) == MidsIn(mids, t)

TlsOf(t) == TlsIn(tls, t)

\* The values through which the caller can reach transport t.
OwnerCount(t) ==
    (IF t \in raw THEN 1 ELSE 0) + Cardinality(MidsOf(t)) + Cardinality(TlsOf(t))

\* What the same builder call does on the same transport when it never
\* signals would-block.
Uninterrupted(t) ==
    LET tr == [transport[t] EXCEPT !.blocking = TRUE, !.ready = 0, !.log = <<>>] IN
    IF call[t].side = "Client"
    THEN ClientBuilder_handshake(call[t].domain, t, tr, call[t].fault)
    ELSE ServerBuilder_handshake(srv, t, tr, call[t].fault)

IsPrefix(a, b) == Len(a) <= Len(b) /\ \A i \in 1..Len(a) : a[i] = b[i]

\* C1: the status of a transport moves only NotStarted -> {Complete,
\* Interrupted, Failed} and Interrupted -> {Complete, Interrupted, Failed};
\* every return is exactly one of TlsStream, Interrupted(mid), Failure(error);
\* a Complete or Failed transport is never attempted again: nothing moves on
\* it, and the caller holds neither the stream nor a suspended value for it.
C1_StatusMoves ==
    [][\A t \in Transports :
         /\ result[t] = "Interrupted"
              => result'[t] \in {"Complete", "Interrupted", "Failed"}
         /\ result[t] \in {"Complete", "Failed"}
              => /\ result'[t] = result[t]
                 /\ transport'[t] = transport[t]
                 /\ call'[t] = call[t]
         /\ result'[t] \in {"Complete", "Failed"}
              => t \notin raw' /\ MidsIn(mids', t) = {}
         /\ (result'[t] = "Complete") = (TlsIn(tls', t) # {})
         /\ (result'[t] = "Interrupted") = (MidsIn(mids', t) # {})
         /\ (result'[t] = "Failed") = (err'[t] # NoError)
         /\ (result'[t] = "NotStarted") = (call'[t] = NoCall)
      ]_vars

\* C1's case: one transport went through an interruption to Complete while
\* another one Failed.
C1_Witness ==
    \E t, u \in Transports :
        /\ result[t] = "Complete" /\ ~transport[t].blocking
        /\ result[u] = "Failed" /\ transport[u].log # <<>>

\* C2: a transport that exists has exactly one owner, and which one follows
\* from its status: the caller's stream before the builder call, the one
\* MidHandshakeTlsStream after Interrupted, the one TlsStream after Complete;
\* after Failure the stream was dropped and nothing holds it.
C2_OneOwner ==
    \A t \in Transports :
        /\ OwnerCount(t) <= 1
        /\ result[t] = "NotStarted" => t \in raw
        /\ result[t] = "Interrupted"
             => Cardinality(MidsOf(t)) = 1 /\ t \notin raw /\ TlsOf(t) = {}
        /\ result[t] = "Complete"
             => Cardinality(TlsOf(t)) = 1 /\ t \notin raw /\ MidsOf(t) = {}
        /\ result[t] = "Failed" => OwnerCount(t) = 0

\* C2's case: a handshake was resumed and interrupted again, and the
\* transport is held by the one suspended value.
C2_Witness ==
    \E t \in Transports :
        /\ result[t] = "Interrupted"
        /\ transport[t].log # <<>>
        /\ OwnerCount(t) = 1
        /\ \E m \in mids : m.mid.stream = t /\ m.mid.ctx.pos = Len(transport[t].log)

\* C3: under FairSpec (the caller keeps resuming, the transport keeps
\* becoming ready), an Interrupted handshake eventually is Complete or Failed.
C3_Resumable ==
    \A t \in Transports :
        (result[t] = "Interrupted") ~> (result[t] \in {"Complete", "Failed"})

\* C3's case: a handshake on a transport that signals would-block, hence
\* interrupted and resumed at least once, is Complete.
C3_Witness ==
    \E t \in Transports :
        /\ ~transport[t].blocking
        /\ result[t] = "Complete"
        /\ transport[t].log = Script(call[t].side)

\* C4: whatever the interruptions, the records read and written on the
\* transport are those of the uninterrupted run of the same call, in the same
\* order, none twice: a prefix of them while the handshake is suspended, with
\* the suspended context standing exactly at the end of that prefix, and all
\* of them, with the same outcome, once it is resolved.
C4_WireTransparent ==
    \A t \in Transports :
        /\ result[t] = "NotStarted" => transport[t].log = <<>>
        /\ result[t] = "Interrupted"
             => /\ IsPrefix(transport[t].log, Uninterrupted(t).tr.log)
                /\ Len(transport[t].log) < Len(Uninterrupted(t).tr.log)
                /\ \A m \in MidsOf(t) : m.mid.ctx.pos = Len(transport[t].log)
        /\ result[t] \in {"Complete", "Failed"}
             => /\ transport[t].log = Uninterrupted(t).tr.log
                /\ result[t] = StatusOf(Uninterrupted(t))

\* C4's case: a handshake interrupted in the middle of the script (records
\* on the wire, more to come) and another that resolved on a transport that
\* signals would-block.
C4_Witness ==
    \E t, u \in Transports :
        /\ ~transport[t].blocking /\ result[t] = "Complete"
        /\ result[u] = "Interrupted" /\ Len(transport[u].log) = 2

\* C10: on a transport that never signals would-block, the builder call of
\* a correctly configured ClientBuilder or ServerBuilder (the engine accepts
\* the configuration, the domain is the one of the peer's certificate)
\* against a compliant peer returns Complete: never Interrupted, never Failed.
C10_SingleCall ==
    \A t \in Transports :
        (/\ call[t] # NoCall
         /\ transport[t].blocking
         /\ transport[t].peer = "compliant"
         /\ call[t].fault = "none"
         /\ call[t].side = "Client" => call[t].domain = PeerCertName)
        => /\ result[t] = "Complete"
           /\ MidsOf(t) = {}
           /\ transport[t].log = Script(call[t].side)

\* C10's case: a client and a server handshake, each Complete after its one
\* builder call on a blocking transport.
C10_Witness ==
    \E t, u \in Transports :
        /\ transport[t].blocking /\ call[t].side = "Client" /\ result[t] = "Complete"
        /\ transport[u].blocking /\ call[u].side = "Server" /\ result[u] = "Complete"

---------------------------------------------------------------------------
(* Properties of Pkcs12::parse, under SpecParse *)

Returned == p12out # NoP12Out

Records == p12in.buf.records

\* B is a valid PKCS#12 encoding holding at least one record, P decrypts it,
\* and the storage collaborators work.
ValidImport ==
    /\ p12in.buf.valid
    /\ Len(Records) >= 1
    /\ p12in.pass = p12in.buf.pass
    /\ p12in.fault = "none"

Count(seq, x) == Cardinality({i \in 1..Len(seq) : seq[i] = x})

DersOf(chain) == [i \in 1..Len(chain) |-> to_der(chain[i])]

ReturnedChain == [i \in 1..Len(p12out.bundle.chain) |-> p12out.bundle.chain[i].cert]

ReturnedLeaf == to_der(p12out.bundle.identity.identity.cert)

C6_WrongPassphraseIsError ==
    (Returned /\ p12in.buf.valid /\ p12in.pass # p12in.buf.pass)
        => p12out.tag = "Err"

\* C7 as claimed: every decode, decrypt or storage failure, the failure to
\* create the temporary directory and an import without records included,
\* is returned as an Error: parse neither panics nor returns a bundle.
C7_FailuresAreErrors ==
    (Returned /\ ~ValidImport) => p12out.tag = "Err"

\* C8 as claimed: the returned identity and chain are those of import
\* record 0, the first one.
C8_FirstRecord ==
    (Returned /\ p12out.tag = "Ok")
        => /\ p12out.bundle.identity = Identity(Records[1].identity)
           /\ {ReturnedChain[i] : i \in 1..Len(ReturnedChain)}
                \subseteq {Records[1].cert_chain[i] : i \in 1..Len(Records[1].cert_chain)}

\* C8 as amended: the returned identity and chain are those of the last
\* import record: the identity is its identity, and the returned chain holds
\* certificates of its chain only, and all of them that differ from the leaf.
C8_LastRecord ==
    (Returned /\ p12out.tag = "Ok")
        => LET last == Records[Len(Records)] IN
           /\ p12out.bundle.identity = Identity(last.identity)
           /\ {ReturnedChain[i] : i \in 1..Len(ReturnedChain)}
                = {c \in {last.cert_chain[i] : i \in 1..Len(last.cert_chain)} :
                      to_der(c) # to_der(last.identity.cert)}

\* C8's case: an import of several records that differ.
C8_Witness ==
    /\ Returned /\ p12out.tag = "Ok"
    /\ Len(Records) >= 2
    /\ to_der(Records[1].identity.cert) # to_der(Records[Len(Records)].identity.cert)
    /\ Records[1].cert_chain # <<>>
    /\ p12out.bundle.chain # <<>>

\* The positions of the selected record's chain that do not hold the leaf's
\* encoding.
OtherIdx(chain, leaf) == {i \in 1..Len(chain) : to_der(chain[i]) # leaf}

\* C9: the returned chain holds the leaf's encoding zero times, and it is the
\* imported chain without those entries: each other member as often as it was
\* imported (once when imported once), in the imported order.
C9_OnlyLeafFiltered ==
    (Returned /\ p12out.tag = "Ok")
        => LET chain == Records[Len(Records)].cert_chain
               leaf  == ReturnedLeaf
               idx   == OtherIdx(chain, leaf)
           IN
           /\ Count(DersOf(ReturnedChain), leaf) = 0
           /\ Len(ReturnedChain) = Cardinality(idx)
           /\ \A i \in idx :
                 ReturnedChain[Cardinality({j \in idx : j <= i})] = chain[i]
           /\ \A d \in Ders \ {leaf} :
                 Count(DersOf(ReturnedChain), d) = Count(DersOf(chain), d)

\* C9's case: the imported chain holds the leaf twice and another member.
C9_Witness ==
    /\ Returned /\ p12out.tag = "Ok"
    /\ LET chain == Records[Len(Records)].cert_chain IN
       /\ Count(DersOf(chain), ReturnedLeaf) = 2
       /\ Len(chain) = 3
       /\ Len(ReturnedChain) = 1

---------------------------------------------------------------------------
(* Configuration errors, retries and the wrapping of engine outcomes *)

\* The error of the configuration step that the fault input makes fail.
ConfigError(fault) ==
    IF fault = "new" THEN Error_from("errSecAllocate") ELSE Error_from("errSecParam")

\* C11: when creating the engine session, setting the peer domain name or
\* installing the identity and chain fails, the builder's handshake returns
\* Failure with that error, the engine's handshake step has not been invoked
\* and no byte has been read from or written to the transport.
C11_ConfigErrorsFirst ==
    \A t \in Transports :
        call[t].fault # "none" =>
            /\ result[t] = "Failed"
            /\ err[t] = ConfigError(call[t].fault)
            /\ transport[t].driven = 0
            /\ transport[t].log = <<>>
            /\ MidsOf(t) = {}
            /\ TlsOf(t) = {}

C11_Witness ==
    \E t, u \in Transports :
        /\ call[t] = [side |-> "Client", domain |-> PeerCertName, fault |-> "set"]
        /\ call[u] = [side |-> "Server", domain |-> "", fault |-> "new"]
        /\ result[t] = "Failed" /\ result[u] = "Failed"
        /\ ~transport[t].blocking /\ transport[u].blocking

\* The step is a handshake call of the caller on transport t: a builder call
\* takes t from the caller, a resume takes the suspended value of t.
Called(t) ==
    \/ t \in raw /\ t \notin raw'
    \/ MidsOf(t) # {} /\ MidsIn(mids', t) \cap MidsOf(t) = {}

\* C12: the layer never retries: a handshake call drives the engine's
\* handshake step at most once, and the handshake of a transport moves (bytes
\* on the wire, suspended value, status) only in a step in which the caller
\* calls handshake for it; after Failure nothing moves.
C12_NoRetry ==
    [][\A t \in Transports :
          /\ transport'[t].driven <= 1
          /\ (\/ transport'[t].log # transport[t].log
              \/ MidsIn(mids', t) # MidsOf(t)
              \/ result'[t] # result[t]) => Called(t)
          /\ result[t] = "Failed" => transport'[t] = transport[t]]_vars

C12_Witness ==
    \E t \in Transports :
        /\ result[t] = "Interrupted"
        /\ transport[t].ready > 0
        /\ transport[t].driven = 1
        /\ transport[t].log # <<>>

\* C13: the variant a handshake call returns is the variant the engine's
\* handshake step returned in that call: Ok gives a TlsStream, Interrupted a
\* suspended value, Failure a Failure that carries the engine's own error.
C13_OutcomeWrapped ==
    \A t \in Transports :
        transport[t].driven > 0 =>
            LET last == transport[t].last IN
            /\ last.tag = "Ok" =>
                  /\ result[t] = "Complete"
                  /\ err[t] = NoError
                  /\ Cardinality(TlsOf(t)) = 1 /\ MidsOf(t) = {}
            /\ last.tag = "Interrupted" =>
                  /\ result[t] = "Interrupted"
                  /\ err[t] = NoError
                  /\ Cardinality(MidsOf(t)) = 1 /\ TlsOf(t) = {}
            /\ last.tag = "Failure" =>
                  /\ result[t] = "Failed"
                  /\ err[t] = [base |-> last.error]
                  /\ MidsOf(t) = {} /\ TlsOf(t) = {}
            /\ last.tag \in {"Ok", "Interrupted", "Failure"}

C13_Witness ==
    \E t, u \in Transports :
        /\ transport[t].last = [tag |-> "Failure", error |-> "errSSLHostNameMismatch"]
        /\ result[t] = "Failed"
        /\ transport[u].last.tag = "Ok"
        /\ result[u] = "Complete"

---------------------------------------------------------------------------
(* Sequencing of attempts, the server's credentials, independent transports *)

\* C15: the attempts on one transport are strictly sequential: there is never
\* more than one suspended value for a transport, the one there is was
\* returned by the attempt made last, no builder call can be made while it
\* exists, and an attempt that moves the transport consumes it.
C15_Sequential ==
    [][\A t \in Transports :
          /\ Cardinality(MidsIn(mids', t)) <= 1
          /\ MidsIn(mids', t) # {} =>
                /\ t \notin raw'
                /\ result'[t] = "Interrupted"
                /\ transport'[t].last.tag = "Interrupted"
                /\ \A m \in MidsIn(mids', t) : m.mid.ctx.pos = Len(transport'[t].log)
          /\ \A m \in MidsOf(t) :
                (transport'[t].log # transport[t].log \/ result'[t] # result[t])
                    => m \notin mids']_vars

C15_Witness ==
    \E t \in Transports :
        /\ Cardinality(MidsOf(t)) = 1
        /\ Len(transport[t].log) >= 2
        /\ result[t] = "Interrupted"

\* The identity and chain a server-side session has installed.
Installed(s) == s.ctx.cert

\* C16: the ServerBuilder holds the identity and chain given to
\* ServerBuilder::new, unchanged by any number of handshakes, and every
\* session a server handshake has created has exactly that identity and
\* chain installed.
C16_SameCredentials ==
    /\ srv = ServerBuilder_new("serverKey", <<"ca">>)
    /\ \A m \in mids :
          m.mid.ctx.side = "Server" =>
              Installed(m.mid) = [identity |-> srv.identity, chain |-> srv.chain]
    /\ \A s \in tls :
          s.ssl.ctx.side = "Server" =>
              Installed(s.ssl) = [identity |-> srv.identity, chain |-> srv.chain]

C16_Witness ==
    \E t, u \in Transports :
        /\ t # u
        /\ call[t].side = "Server" /\ call[u].side = "Server"
        /\ TlsOf(t) # {}
        /\ MidsOf(u) # {}
        /\ Len(transport[u].log) >= 2

\* Everything the model holds about transport t.
About(t, r, m, s, res, e, c, tr) ==
    <<t \in r, MidsIn(m, t), TlsIn(s, t), res[t], e[t], c[t], tr[t]>>

\* C17: a builder serves any number of handshakes, each with an engine
\* session of its own, configured by its own call and bound to its own
\* transport: a step that changes anything about one transport leaves
\* everything about every other transport as it was.
C17_Independent ==
    [][/\ \A t, u \in Transports :
            (/\ t # u
             /\ About(t, raw', mids', tls', result', err', call', transport')
                  # About(t, raw, mids, tls, result, err, call, transport))
            => About(u, raw', mids', tls', result', err', call', transport')
                  = About(u, raw, mids, tls, result, err, call, transport)
       /\ \A m \in mids' :
            /\ m.mid.stream \in Transports
            /\ m.mid.ctx.side = call'[m.mid.stream].side
            /\ m.mid.ctx.peerName = call'[m.mid.stream].domain
       /\ \A s \in tls' :
            /\ s.ssl.stream \in Transports
            /\ s.ssl.ctx.side = call'[s.ssl.stream].side
            /\ s.ssl.ctx.peerName = call'[s.ssl.stream].domain
            /\ s.ssl.ctx.pos = Len(transport'[s.ssl.stream].log)]_vars

C17_Witness ==
    \E t, u \in Transports :
        /\ t # u
        /\ call[t].side = "Client" /\ call[u].side = "Client"
        /\ result[t] = "Failed" /\ err[t] = Error_from("errSSLHostNameMismatch")
        /\ result[u] = "Complete"
        /\ ~transport[u].blocking

---------------------------------------------------------------------------
(* Pkcs12::parse: the credential storage and the import record *)

\* C14: after parse has returned, with a bundle or with an Error from any
\* step, none of the storage artifacts the call created (the temporary
\* directory, the keychain in it) exists any more.
C14_TornDown ==
    (Returned /\ p12out.tag \in {"Ok", "Err"}) => p12out.fs = {}

C14_Witness ==
    /\ Returned
    /\ p12out.tag = "Err"
    /\ p12out.error = Error_from("errSecItemNotFound")
    /\ p12out.made = {<<"native_tls">>, <<"native_tls", "keychain">>}
    /\ p12out.fs = {}

\* C18 as claimed: the secret that protects the temporary keychain is not the
\* caller's passphrase.
C18_SecretNotPassphrase ==
    (Returned /\ p12out.secret # "none") => p12out.secret # p12in.pass

\* C20: the returned identity and the returned chain come from one and the
\* same import record: the identity is that record's identity, and the chain
\* is that record's chain, as the same certificate objects in the same order,
\* without the members that have the encoding of that identity's
\* certificate.
C20_SameRecord ==
    (Returned /\ p12out.tag = "Ok") =>
        \E k \in 1..Len(Records) :
            LET leaf == to_der(Records[k].identity.cert)
                rest == SelectSeq(Records[k].cert_chain, LAMBDA c : to_der(c) # leaf)
            IN
            /\ p12out.bundle.identity = Identity(Records[k].identity)
            /\ ReturnedLeaf = leaf
            /\ ReturnedChain = rest

\* C20's case: two records a comparison of encodings cannot tell apart.
C20_Witness ==
    /\ Returned /\ p12out.tag = "Ok"
    /\ Len(Records) = 2
    /\ Records[1].cert_chain # <<>>
    /\ DersOf(Records[1].cert_chain) = DersOf(ReturnedChain)
    /\ Len(Records[2].cert_chain) > Len(ReturnedChain)
    /\ to_der(Records[1].identity.cert) = to_der(Records[2].identity.cert)

---------------------------------------------------------------------------
(* The established stream *)

\* C19: read, write and flush on a TlsStream return exactly what the engine
\* stream returned (byte count, would-block or error); buffered_read_size
\* returns the engine's buffered count, or the engine's error as an Error, and
\* leaves the stream as it was.
C19_PassThrough ==
    [][\A t \in Transports :
          io'[t] # io[t] =>
              /\ io'[t].op \in {"read", "write", "flush"} =>
                    io'[t].returned = io'[t].engine
              /\ io'[t].op = "buffered_read_size" =>
                    /\ io'[t].engine.ok => io'[t].returned = IoOk(io[t].buffered)
                    /\ ~io'[t].engine.ok =>
                          io'[t].returned = IoErr([base |-> io'[t].engine.error])
                    /\ io'[t].buffered = io[t].buffered
                    /\ tls' = tls
                    /\ transport' = transport]_vars

C19_Witness ==
    \E t, u \in Transports :
        /\ io[t].op = "read"
        /\ io[t].returned = IoErr([kind |-> "WouldBlock"])
        /\ io[u].op = "buffered_read_size"
        /\ io[u].returned = IoOk(MaxBuffered - 1)

=============================================================================
